---- MODULE Spec2Model ----
(***************************************************************************)
(* A model of crab-lib: the analysis module (haversine_distance,           *)
(* calculate_distances, find_clusters, summarize_data), the preprocessing  *)
(* module (clean_data, standardize_comments) and utils.is_within_bounds.   *)
(*                                                                         *)
(* Python values are modelled as follows.                                  *)
(*   str        [t |-> "str", s |-> <<c1, ..., cn>>], one character each   *)
(*   None       [t |-> "none"]                                             *)
(*   float      [t |-> "rat", p |-> n, q |-> d] is the double nearest to   *)
(*              the rational n/d (d >= 1, lowest terms); every value the   *)
(*              specifications draw of this shape is a dyadic rational of  *)
(*              a few bits, so sums of them are exact in binary64;         *)
(*              [t |-> "top", p |-> c, q |-> s] is the double              *)
(*              64*c - s*2^-47 (s small), the window just below a power of *)
(*              two in which binary64 rounding of sums and quotients is    *)
(*              computed exactly with small integers.                      *)
(*   dict       a TLA+ record (function on the keys it has)                *)
(*   list       a sequence                                                 *)
(***************************************************************************)
EXTENDS Integers, Sequences, FiniteSets, TLC

VARIABLES data, radius, pc, i, j, visited, cluster, clusters, op, result

vars == <<data, radius, pc, i, j, visited, cluster, clusters, op, result>>

(***************************************************************************)
(* Bounds of the model.                                                    *)
(***************************************************************************)
\* Longest dataset drawn by Init.
MaxLen == 3

(***************************************************************************)
(* Python values.                                                          *)
(***************************************************************************)
Str(chars) == [t |-> "str", s |-> chars]

None == [t |-> "none"]

Abs(x) == IF x < 0 THEN -x ELSE x

Sgn(x) == IF x < 0 THEN -1 ELSE 1

RECURSIVE Gcd(_, _)
Gcd(a, b) == IF b = 0 THEN a ELSE Gcd(b, a % b)

\* The double nearest to n/d, d >= 1.
Rat(n, d) ==
    LET g == Gcd(Abs(n), d)
    IN  [t |-> "rat", p |-> n \div g, q |-> d \div g]

\* The double 64*c - s*2^-47.
Top(c, s) == [t |-> "top", p |-> c, q |-> s]

(***************************************************************************)
(* float(v): the conversion the library applies to every coordinate.       *)
(* A float is returned as it is; a str is stripped of surrounding          *)
(* whitespace and parsed as  [sign] digits [. [digits]]  or  [sign] .      *)
(* digits (the characters the model draws exclude exponents, underscores,  *)
(* inf and nan); anything else raises ValueError; None raises TypeError.   *)
(***************************************************************************)
Digits == {"0", "1", "2", "3", "4", "5", "6", "7", "8", "9"}

DigitVal(c) ==
    CASE c = "0" -> 0 [] c = "1" -> 1 [] c = "2" -> 2 [] c = "3" -> 3
      [] c = "4" -> 4 [] c = "5" -> 5 [] c = "6" -> 6 [] c = "7" -> 7
      [] c = "8" -> 8 [] c = "9" -> 9

RECURSIVE LStrip(_)
LStrip(s) == IF s # <<>> /\ Head(s) = " " THEN LStrip(Tail(s)) ELSE s

RECURSIVE RStrip(_)
RStrip(s) ==
    IF s # <<>> /\ s[Len(s)] = " " THEN RStrip(SubSeq(s, 1, Len(s) - 1)) ELSE s

Strip(s) == RStrip(LStrip(s))

\* The value of a sequence of digits, most significant first.
RECURSIVE DigitsVal(_)
DigitsVal(s) ==
    IF s = <<>> THEN 0
    ELSE 10 * DigitsVal(SubSeq(s, 1, Len(s) - 1)) + DigitVal(s[Len(s)])

RECURSIVE Pow10(_)
Pow10(n) == IF n = 0 THEN 1 ELSE 10 * Pow10(n - 1)

\* [ok |-> TRUE, v |-> float] or [ok |-> FALSE, err |-> exception].
ParseFloat(chars) ==
    LET s0   == Strip(chars)
        neg  == s0 # <<>> /\ Head(s0) = "-"
        sgnd == s0 # <<>> /\ Head(s0) \in {"-", "+"}
        body == IF sgnd THEN Tail(s0) ELSE s0
        dots == {k \in 1..Len(body) : body[k] = "."}
        digs == {k \in 1..Len(body) : body[k] \in Digits}
        wellformed == /\ digs # {}
                      /\ Cardinality(dots) <= 1
                      /\ dots \cup digs = 1..Len(body)
        dot  == IF dots = {} THEN Len(body) + 1 ELSE CHOOSE k \in dots : TRUE
        ipart == SubSeq(body, 1, dot - 1)
        frac == SubSeq(body, dot + 1, Len(body))
        mag  == DigitsVal(ipart \o frac)
    IN  IF wellformed
        THEN [ok |-> TRUE, v |-> Rat(IF neg THEN -mag ELSE mag, Pow10(Len(frac)))]
        ELSE [ok |-> FALSE, err |-> "ValueError"]

ToFloat(v) ==
    CASE v.t = "str"  -> ParseFloat(v.s)
      [] v.t = "none" -> [ok |-> FALSE, err |-> "TypeError"]
      [] OTHER        -> [ok |-> TRUE, v |-> v]

(***************************************************************************)
(* Arithmetic and comparison of floats.                                    *)
(***************************************************************************)
\* The int 0 that sum() starts from.
Zero == Rat(0, 1)

\* Spacing, in units of 2^-47, of the doubles just below 64*c: the least
\* power of two that is at least c.
RECURSIVE UlpBelow(_)
UlpBelow(c) == IF c <= 1 THEN 1 ELSE 2 * UlpBelow((c + 1) \div 2)

\* n/d rounded to the nearest integer, ties to the even one (n >= 0, d >= 1):
\* IEEE 754 round-half-even.
RoundHalfEven(n, d) ==
    LET k == n \div d
        r == n % d
    IN  IF 2 * r < d THEN k
        ELSE IF 2 * r > d THEN k + 1
        ELSE IF k % 2 = 0 THEN k ELSE k + 1

\* 64*c - s*2^-47 rounded to a double.
RoundTop(c, s) == Top(c, UlpBelow(c) * RoundHalfEven(s, UlpBelow(c)))

\* a + b.
FAdd(a, b) ==
    CASE a.t = "rat" /\ b.t = "rat" -> Rat(a.p * b.q + b.p * a.q, a.q * b.q)
      [] a.t = "top" /\ b.t = "top" -> RoundTop(a.p + b.p, a.q + b.q)
      [] a = Zero /\ b.t = "top"    -> b
      [] a.t = "top" /\ b = Zero    -> a

\* a / n for an int n >= 1; of a "top" value only the quotient of a sum of n
\* terms by n is drawn.
FDiv(a, n) ==
    CASE a.t = "rat"              -> Rat(a.p, a.q * n)
      [] a.t = "top" /\ a.p = n   -> Top(1, RoundHalfEven(a.q, n))

\* a <= b.
FLe(a, b) ==
    CASE a.t = "rat" /\ b.t = "rat" -> a.p * b.q <= b.p * a.q
      [] a.t = "top" /\ b.t = "top" ->
            \/ a.p < b.p
            \/ a.p = b.p /\ a.q >= b.q

\* sum(xs) of a generator of floats: ((0 + xs[1]) + xs[2]) + ...
\* CPython up to 3.11 adds the items in this way; from 3.12 on the sum is
\* compensated, which is the same double for the lists of up to three rows
\* drawn in InitSummary.
RECURSIVE FSum(_)
FSum(xs) ==
    IF xs = <<>> THEN Zero
    ELSE FAdd(FSum(SubSeq(xs, 1, Len(xs) - 1)), xs[Len(xs)])

\* min(xs) and max(xs) of a non-empty list: the first least (greatest) item.
RECURSIVE FMin(_)
FMin(xs) ==
    IF Len(xs) = 1 THEN xs[1]
    ELSE LET m == FMin(SubSeq(xs, 1, Len(xs) - 1))
         IN  IF FLe(m, xs[Len(xs)]) THEN m ELSE xs[Len(xs)]

RECURSIVE FMax(_)
FMax(xs) ==
    IF Len(xs) = 1 THEN xs[1]
    ELSE LET m == FMax(SubSeq(xs, 1, Len(xs) - 1))
         IN  IF FLe(xs[Len(xs)], m) THEN m ELSE xs[Len(xs)]

(***************************************************************************)
(* The math module in fixed point: a real r is the integer nearest to      *)
(* r * FP.  Products and quotients round to nearest on the magnitude, so   *)
(* that, as in IEEE arithmetic, negating an operand negates the result.    *)
(* What binary64 tells apart below that resolution is kept beside it: an   *)
(* angle [w |-> w, u |-> u] is w/FP + u * 2^-52 radians, and a distance    *)
(* [w |-> w, f |-> f] is w/FP + f * 2^-53/1000 kilometres.                 *)
(***************************************************************************)
FP == 10000

\* pi * FP
PiFP == 31416

MulFP(a, b) == Sgn(a) * Sgn(b) * ((Abs(a) * Abs(b) + FP \div 2) \div FP)

DivFP(a, b) == Sgn(a) * Sgn(b) * ((Abs(a) * FP + Abs(b) \div 2) \div Abs(b))

\* a / n for a small int n.
DivInt(a, n) == Sgn(a) * ((Abs(a) + n \div 2) \div n)

\* math.radians of a float of degrees, x * (pi / 180) rounded to a double.
\* 64 * (pi / 180) is a double in [1, 2), where doubles are 2^-52 apart, and
\* 2^-47 degrees are 32 * (pi / 180) of that spacing.
radians(f) ==
    CASE f.t = "rat" ->
            [w |-> Sgn(f.p) * ((Abs(f.p) * PiFP + 90 * f.q) \div (180 * f.q)),
             u |-> 0]
      [] f.t = "top" ->
            [w |-> (64 * f.p * PiFP + 90) \div 180,
             u |-> -RoundHalfEven(f.q * 32 * PiFP, 180 * FP)]

\* math.sin, |x| <= pi/2: x - x^3/3! + x^5/5! - x^7/7! + x^9/9!
sin(x) ==
    LET x2 == MulFP(x, x)
        t3 == DivInt(MulFP(x, x2), 6)
        t5 == DivInt(MulFP(t3, x2), 20)
        t7 == DivInt(MulFP(t5, x2), 42)
        t9 == DivInt(MulFP(t7, x2), 72)
    IN  x - t3 + t5 - t7 + t9

\* math.cos, |x| <= pi/2: 1 - x^2/2! + x^4/4! - x^6/6! + x^8/8! - x^10/10!
cos(x) ==
    LET x2  == MulFP(x, x)
        t2  == DivInt(x2, 2)
        t4  == DivInt(MulFP(t2, x2), 12)
        t6  == DivInt(MulFP(t4, x2), 30)
        t8  == DivInt(MulFP(t6, x2), 56)
        t10 == DivInt(MulFP(t8, x2), 90)
    IN  FP - t2 + t4 - t6 + t8 - t10

\* The integer square root of n >= 0, by bisection on lo..hi.
RECURSIVE IsqrtIn(_, _, _)
IsqrtIn(n, lo, hi) ==
    IF lo = hi THEN lo
    ELSE LET mid == (lo + hi + 1) \div 2
         IN  IF mid * mid <= n THEN IsqrtIn(n, mid, hi) ELSE IsqrtIn(n, lo, mid - 1)

\* math.sqrt of 0 <= a <= 1.
sqrt(a) == IsqrtIn(a * FP, 0, FP)

\* atan(z) for 0 <= z <= 1, an odd polynomial of degree 9 in z.
AtanUnit(z) ==
    LET z2 == MulFP(z, z)
        h3 == -851 + MulFP(z2, 208)
        h2 == 1801 + MulFP(z2, h3)
        h1 == -3303 + MulFP(z2, h2)
        h0 == 9999 + MulFP(z2, h1)
    IN  MulFP(z, h0)

\* math.atan2(y, x) for y >= 0 and x >= 0, not both 0 unless y = 0.
atan2(y, x) ==
    IF y = 0 THEN 0
    ELSE IF y <= x THEN AtanUnit(DivFP(y, x))
    ELSE PiFP \div 2 - AtanUnit(DivFP(x, y))

(***************************************************************************)
(* analysis.haversine_distance, in kilometres.                             *)
(***************************************************************************)
\* Radius of the Earth in kilometers.
R == 6371

\* The outcome of a call: the value returned or the exception raised.
Ok(v) == [status |-> "ok", value |-> v]

Raise(e) == [status |-> "error", err |-> e]

\* The two points are antipodes: lat2 = -lat1 and lon2 = lon1 + 180 or
\* lon1 - 180.
Antipodes(coord1, coord2) ==
    /\ \A k \in 1..2 : coord1[k].t = "rat" /\ coord2[k].t = "rat"
    /\ coord2[1].p = -coord1[1].p
    /\ coord2[1].q = coord1[1].q
    /\ Abs(coord2[2].p * coord1[2].q - coord1[2].p * coord2[2].q)
          = 180 * coord1[2].q * coord2[2].q

\* For antipodes dlat / 2 is -lat1 and dlon / 2 is pi / 2 to a few 2^-52,
\* where sin is 1.0, so that a is s * s + c * c for the doubles s = sin(lat1)
\* and c = cos(lat1), each product and the sum rounded to a double.  s * s,
\* in [1/2, 1), is a multiple of 2^-53 and c * c one of 2^-58 or less:
\* SquaresExcess is 2^58 * (s * s + c * c - 1) before the sum is rounded, at
\* the latitudes of whole degrees drawn below, with the sin and cos of the C
\* library.
SquaresExcess(lat) ==
    CASE Abs(lat.p) = 0 /\ lat.q = 1 -> 0
      [] Abs(lat.p) = 30 /\ lat.q = 1 -> 16
      [] Abs(lat.p) = 82 /\ lat.q = 1 -> 38

\* a > 1: the doubles next to 1 are 1 - 2^-53 and 1 + 2^-52, and a sum more
\* than 2^-53 above 1 is rounded up to the latter.
AboveOne(coord1, coord2) ==
    Antipodes(coord1, coord2) /\ SquaresExcess(coord1[1]) > 32

\* A slip: cos(lat1) * cos(lat1).
CosProductOneLatitude(lat1, lat2) == MulFP(cos(lat1), cos(lat1))

\* cos(lat1) * cos(lat2)
CosProduct(lat1, lat2) == MulFP(cos(lat1), cos(lat2))

\* When the two points are so near that dlat and dlon are a few spacings of
\* doubles, sin(x) is x, sqrt(1 - a) is 1 and atan2(y, 1) is y.  When a is
\* above 1, sqrt(1 - a) raises ValueError (math domain error).
haversine_distance(coord1, coord2) ==
    LET lat1 == radians(coord1[1])
        lon1 == radians(coord1[2])
        lat2 == radians(coord2[1])
        lon2 == radians(coord2[2])
        dlat == [w |-> lat2.w - lat1.w, u |-> lat2.u - lat1.u]
        dlon == [w |-> lon2.w - lon1.w, u |-> lon2.u - lon1.u]
        cc == CosProduct(lat1.w, lat2.w)
        sdlat == sin(DivInt(dlat.w, 2))
        sdlon == sin(DivInt(dlon.w, 2))
        a == MulFP(sdlat, sdlat) + MulFP(cc, MulFP(sdlon, sdlon))
        c == 2 * atan2(sqrt(a), sqrt(FP - a))
        near == dlat.w = 0 /\ dlon.w = 0
        anear == dlat.u * dlat.u * FP + cc * dlon.u * dlon.u
        cnear == 2 * IsqrtIn(anear * 100, 0, FP)
    IN  IF AboveOne(coord1, coord2)
        THEN Raise("ValueError")
        ELSE Ok([w |-> R * c, f |-> IF near THEN R * cnear ELSE 0])

\* A radius of r kilometres.
Km(r) == [w |-> r * FP, f |-> 0]

\* d1 <= d2 and d1 < d2 of distances.
DLe(d1, d2) == d1.w < d2.w \/ (d1.w = d2.w /\ d1.f <= d2.f)

DLt(d1, d2) == d1.w < d2.w \/ (d1.w = d2.w /\ d1.f < d2.f)

\* The (latitude, longitude) a record is read as: (float(p['x']), float(p['y'])).
\* The analysis functions are given validated numeric coordinates.
Coord(point) == <<ToFloat(point.x).v, ToFloat(point.y).v>>

(***************************************************************************)
(* analysis.calculate_distances.  Python's indices 0..n-1 are 1..n here.   *)
(***************************************************************************)
\* The inner loop for one i from j = from on: the records it appends, or
\* the exception of the first haversine_distance that raises.
RECURSIVE DistancesFrom(_, _, _)
DistancesFrom(d, a, from) ==
    IF from > Len(d) THEN Ok(<<>>)
    ELSE LET point1 == Coord(d[a])
             point2 == Coord(d[from])
             distance == haversine_distance(point1, point2)
             rest == DistancesFrom(d, a, from + 1)
         IN  IF distance.status = "error" THEN distance
             ELSE IF rest.status = "error" THEN rest
             ELSE Ok(<<[point1 |-> point1, point2 |-> point2,
                        distance |-> distance.value]>> \o rest.value)

\* The first j of the inner loop: range(i + 1, len(data)).
InnerStart(a) == a + 1

\* The outer loop from i = a on.
RECURSIVE DistancesOuter(_, _)
DistancesOuter(d, a) ==
    IF a > Len(d) THEN Ok(<<>>)
    ELSE LET row == DistancesFrom(d, a, InnerStart(a))
             rest == DistancesOuter(d, a + 1)
         IN  IF row.status = "error" THEN row
             ELSE IF rest.status = "error" THEN rest
             ELSE Ok(row.value \o rest.value)

calculate_distances(d) == DistancesOuter(d, 1)

(***************************************************************************)
(* analysis.summarize_data and utils.is_within_bounds.                     *)
(***************************************************************************)
\* A slip: the latitudes are read from 'y'.
LatitudesFromY(d) == [k \in 1..Len(d) |-> Coord(d[k])[2]]

Latitudes(d) == [k \in 1..Len(d) |-> Coord(d[k])[1]]

Longitudes(d) == [k \in 1..Len(d) |-> Coord(d[k])[2]]

bounding_box(d) ==
    [min_lat |-> FMin(Latitudes(d)), max_lat |-> FMax(Latitudes(d)),
     min_lon |-> FMin(Longitudes(d)), max_lon |-> FMax(Longitudes(d))]

summarize_data(d) ==
    LET total_points == Len(d)
    IN  IF total_points = 0
        THEN Raise("ZeroDivisionError")
        ELSE Ok([total_points |-> total_points,
                 average_latitude |-> FDiv(FSum(Latitudes(d)), total_points),
                 average_longitude |-> FDiv(FSum(Longitudes(d)), total_points),
                 bounding_box |-> bounding_box(d)])

\* coord = (lat, lon), bounds = (min_lat, max_lat, min_lon, max_lon).
is_within_bounds(coord, bounds) ==
    /\ FLe(bounds[1], coord[1]) /\ FLe(coord[1], bounds[2])
    /\ FLe(bounds[3], coord[2]) /\ FLe(coord[2], bounds[4])

(***************************************************************************)
(* preprocessing.standardize_comments: str.strip().capitalize() written    *)
(* back into every row.                                                    *)
(***************************************************************************)
Upper(c) == CASE c = "a" -> "A" [] c = "b" -> "B" [] OTHER -> c

Lower(c) == CASE c = "A" -> "a" [] c = "B" -> "b" [] OTHER -> c

Capitalize(s) ==
    [k \in 1..Len(s) |-> IF k = 1 THEN Upper(s[k]) ELSE Lower(s[k])]

standardize_comments(d) ==
    [k \in 1..Len(d) |->
        [d[k] EXCEPT !.comment = Str(Capitalize(Strip(d[k].comment.s)))]]

(***************************************************************************)
(* preprocessing.clean_data.                                               *)
(***************************************************************************)
RequiredKeys == {"x", "y", "comment"}

\* The outcome of the body of the try statement for one row: the key (x, y),
\* "skip" when float() raises the ValueError the except clause catches, or
\* the exception that leaves the function.
RowKey(row) ==
    LET fx == ToFloat(row.x)
        fy == ToFloat(row.y)
    IN  IF ~fx.ok
        THEN IF fx.err = "ValueError" THEN [kind |-> "skip"]
             ELSE [kind |-> "raise", err |-> fx.err]
        ELSE IF ~fy.ok
        THEN IF fy.err = "ValueError" THEN [kind |-> "skip"]
             ELSE [kind |-> "raise", err |-> fy.err]
        ELSE [kind |-> "key", x |-> fx.v, y |-> fy.v]

\* The for loop from row k on, with the rows kept and the keys seen so far.
RECURSIVE CleanLoop(_, _, _, _)
CleanLoop(d, k, cleaned_data, seen) ==
    IF k > Len(d) THEN Ok(cleaned_data)
    ELSE LET key == RowKey(d[k])
         IN  CASE key.kind = "raise" -> Raise(key.err)
               [] key.kind = "skip"  -> CleanLoop(d, k + 1, cleaned_data, seen)
               [] key.kind = "key"   ->
                    IF <<key.x, key.y>> \notin seen
                    THEN CleanLoop(d, k + 1,
                             Append(cleaned_data,
                                    [x |-> key.x, y |-> key.y,
                                     comment |-> d[k].comment]),
                             seen \cup {<<key.x, key.y>>})
                    ELSE CleanLoop(d, k + 1, cleaned_data, seen)

clean_data(d) ==
    IF \E k \in 1..Len(d) : ~(RequiredKeys \subseteq DOMAIN d[k])
    THEN Raise("ValueError")
    ELSE CleanLoop(d, 1, <<>>, {})

(***************************************************************************)
(* The datasets the specifications draw.                                   *)
(***************************************************************************)
\* A float of whole degrees.
Deg(v) == Rat(v, 1)

Row(x, y, comment) == [x |-> x, y |-> y, comment |-> Str(comment)]

\* Survey points of the analysis: floats, one row as load_csv gives it
\* (strings) at the coordinates of another, and a point and its antipode.
Points ==
    { Row(Deg(0), Deg(0), <<" ", "a", "b">>),
      Row(Str(<<"3", "0">>), Str(<<" ", "3", "0", ".", "0">>), <<"A", "b">>),
      Row(Deg(30), Deg(30), <<"B">>),
      Row(Deg(30), Deg(60), <<"A", "b">>),
      Row(Deg(82), Deg(0), <<"B">>),
      Row(Deg(-82), Deg(180), <<"B">>) }

\* Radii in kilometres find_clusters is called with.
Radii == {0, 3000, 5000}

\* All lists of at most n items of S.
ListsOf(S, n) == UNION {[1..m -> S] : m \in 0..n}

Idle == [status |-> "none"]

\* The locals of find_clusters outside a call; radius keeps the argument of
\* the last call.
NoCall ==
    /\ i = 0
    /\ j = 0
    /\ visited = {}
    /\ cluster = <<>>
    /\ clusters = <<>>

Init ==
    /\ data \in ListsOf(Points, MaxLen)
    /\ pc = "idle"
    /\ op = "none"
    /\ result = Idle
    /\ radius = 0
    /\ NoCall

(***************************************************************************)
(* The calls.  A call of calculate_distances, summarize_data,              *)
(* standardize_comments or clean_data is one step; find_clusters is        *)
(* stepped through its two loops (pc = "outer", "inner").                  *)
(***************************************************************************)
CalculateDistances ==
    /\ pc = "idle"
    /\ op' = "calculate_distances"
    /\ result' = calculate_distances(data)
    /\ UNCHANGED <<data, radius, pc, i, j, visited, cluster, clusters>>

\* A slip: the coordinates are converted in place, point['x'] = float(...).
SummarizeDataInPlace ==
    /\ pc = "idle"
    /\ op' = "summarize_data"
    /\ result' = summarize_data(data)
    /\ data' = [k \in 1..Len(data) |->
                  [data[k] EXCEPT !.x = Coord(data[k])[1], !.y = Coord(data[k])[2]]]
    /\ UNCHANGED <<radius, pc, i, j, visited, cluster, clusters>>

SummarizeData ==
    /\ pc = "idle"
    /\ op' = "summarize_data"
    /\ result' = summarize_data(data)
    /\ UNCHANGED <<data, radius, pc, i, j, visited, cluster, clusters>>

\* The rows are changed in place and the list itself is returned.
StandardizeComments ==
    /\ pc = "idle"
    /\ op' = "standardize_comments"
    /\ data' = standardize_comments(data)
    /\ result' = Ok(data')
    /\ UNCHANGED <<radius, pc, i, j, visited, cluster, clusters>>

\* find_clusters(data, r): clusters = [], visited = set(), and the outer loop
\* starts.  A cluster is kept as the list of the indices of its rows: the
\* row objects of a cluster are the rows data[k] of the caller's list.
FindClustersCall(r) ==
    /\ pc = "idle"
    /\ op' = "find_clusters"
    /\ result' = [status |-> "running"]
    /\ radius' = r
    /\ clusters' = <<>>
    /\ visited' = {}
    /\ cluster' = <<>>
    /\ i' = 1
    /\ j' = 0
    /\ pc' = "outer"
    /\ UNCHANGED data

\* if i in visited: continue  (and the same test of j in the inner loop).
Skipped(k, seen) == k \in seen

\* A slip: the seed is put after the rows collected, cluster + [point].
NewClusterSeedLast(seed, members) == members \o <<seed>>

\* [point] + cluster, for the seed and the rows the inner loop collected.
NewCluster(seed, members) == <<seed>> \o members

\* One turn of  for i, point in enumerate(data)  up to the inner loop, or the
\* return when the loop is over.
FindClustersOuter ==
    /\ pc = "outer"
    /\ IF i > Len(data)
       THEN /\ result' = Ok(clusters)
            /\ pc' = "idle"
            /\ i' = 0
            /\ clusters' = <<>>
            /\ visited' = {}
            /\ UNCHANGED <<radius, j, cluster>>
       ELSE IF Skipped(i, visited)
       THEN /\ i' = i + 1
            /\ UNCHANGED <<result, pc, radius, clusters, visited, j, cluster>>
       ELSE /\ cluster' = <<>>
            /\ visited' = visited \cup {i}
            /\ j' = 1
            /\ pc' = "inner"
            /\ UNCHANGED <<result, radius, i, clusters>>
    /\ UNCHANGED <<data, op>>

\* distance = haversine_distance((lat1, lon1), (lat2, lon2)) for rows a and
\* b of d.
Distance(d, a, b) == haversine_distance(Coord(d[a]), Coord(d[b]))

\* A slip: the row is compared with the row before it, not with the seed.
WithinRadiusOfPrevious(d, a, b, r) ==
    LET distance == Distance(d, IF b > 1 THEN b - 1 ELSE a, b)
    IN  distance.status = "ok" /\ DLe(distance.value, Km(r))

\* A slip: distance < radius.
WithinRadiusStrict(d, a, b, r) ==
    LET distance == Distance(d, a, b)
    IN  distance.status = "ok" /\ DLt(distance.value, Km(r))

\* distance <= radius for rows a and b of d.
WithinRadius(d, a, b, r) ==
    LET distance == Distance(d, a, b)
    IN  distance.status = "ok" /\ DLe(distance.value, Km(r))

\* One turn of  for j, other_point in enumerate(data), or the end of the
\* loop: clusters.append([point] + cluster).  An exception of
\* haversine_distance ends the call.
FindClustersInner ==
    /\ pc = "inner"
    /\ IF j > Len(data)
       THEN /\ clusters' = Append(clusters, NewCluster(i, cluster))
            /\ i' = i + 1
            /\ j' = 0
            /\ cluster' = <<>>
            /\ pc' = "outer"
            /\ UNCHANGED <<visited, result>>
       ELSE IF Skipped(j, visited)
       THEN /\ j' = j + 1
            /\ UNCHANGED <<clusters, i, cluster, pc, visited, result>>
       ELSE IF Distance(data, i, j).status = "error"
       THEN /\ result' = Distance(data, i, j)
            /\ pc' = "idle"
            /\ i' = 0
            /\ j' = 0
            /\ visited' = {}
            /\ cluster' = <<>>
            /\ clusters' = <<>>
       ELSE IF WithinRadius(data, i, j, radius)
       THEN /\ cluster' = Append(cluster, j)
            /\ visited' = visited \cup {j}
            /\ j' = j + 1
            /\ UNCHANGED <<clusters, i, pc, result>>
       ELSE /\ j' = j + 1
            /\ UNCHANGED <<clusters, i, cluster, pc, visited, result>>
    /\ UNCHANGED <<data, op, radius>>

Next ==
    \/ CalculateDistances
    \/ SummarizeData
    \/ StandardizeComments
    \/ \E r \in Radii : FindClustersCall(r)
    \/ FindClustersOuter
    \/ FindClustersInner

Spec == Init /\ [][Next]_vars

(***************************************************************************)
(* summarize_data on coordinates just below 64 degrees, where the rounding *)
(* of the sum and of the quotient shows.                                   *)
(***************************************************************************)
\* Rows at 64 - s * 2^-47 degrees.
TopPoints ==
    { Row(Top(1, sx), Top(1, sy), <<"A", "b">>) : sx \in {0, 2, 6}, sy \in {2, 4} }

InitSummary ==
    /\ data \in ListsOf(TopPoints, MaxLen)
    /\ pc = "idle"
    /\ op = "none"
    /\ result = Idle
    /\ radius = 0
    /\ NoCall

NextSummary == SummarizeData

SpecSummary == InitSummary /\ [][NextSummary]_vars

(***************************************************************************)
(* find_clusters on rows a few spacings of doubles apart, where two        *)
(* different coordinates can have the same radians.                        *)
(***************************************************************************)
\* Rows at 64 - s * 2^-47 degrees.
NearPoints ==
    { Row(Top(1, sx), Top(1, sy), <<"B">>) : sx \in {1, 2, 3}, sy \in {1, 3} }

NearRadii == {0, 1}

InitNear ==
    /\ data \in ListsOf(NearPoints, MaxLen)
    /\ pc = "idle"
    /\ op = "none"
    /\ result = Idle
    /\ radius = 0
    /\ NoCall

NextNear ==
    \/ \E r \in NearRadii : FindClustersCall(r)
    \/ FindClustersOuter
    \/ FindClustersInner

SpecNear == InitNear /\ [][NextNear]_vars

(***************************************************************************)
(* clean_data on rows as load_csv and callers give them.                   *)
(***************************************************************************)
CleanRows ==
    { Row(Str(<<"3", "0">>), Str(<<"6", "0">>), <<"A", "b">>),
      Row(Str(<<" ", "3", "0", ".", "0">>), Str(<<"6", "0">>), <<"B">>),
      Row(Str(<<"-", "1", ".", "5">>), Str(<<"0">>), <<"A", "b">>),
      Row(Str(<<"x">>), Str(<<"6", "0">>), <<"A", "b">>),
      Row(Str(<<"3", "0">>), Str(<<>>), <<"B">>),
      Row(Str(<<"x">>), None, <<"B">>),
      Row(None, Str(<<"6", "0">>), <<"A", "b">>),
      [x |-> Str(<<"3", "0">>), y |-> Str(<<"6", "0">>)] }

InitClean ==
    /\ data \in ListsOf(CleanRows, MaxLen)
    /\ pc = "idle"
    /\ op = "none"
    /\ result = Idle
    /\ radius = 0
    /\ NoCall

CleanData ==
    /\ pc = "idle"
    /\ op' = "clean_data"
    /\ result' = clean_data(data)
    /\ UNCHANGED <<data, radius, pc, i, j, visited, cluster, clusters>>

\* The caller keeps the cleaned list as its dataset: data = clean_data(data).
KeepCleaned ==
    /\ pc = "idle"
    /\ op = "clean_data"
    /\ result.status = "ok"
    /\ data' = result.value
    /\ op' = "none"
    /\ result' = Idle
    /\ UNCHANGED <<radius, pc, i, j, visited, cluster, clusters>>

NextClean == CleanData \/ KeepCleaned

SpecClean == InitClean /\ [][NextClean]_vars

(***************************************************************************)
(* The claims about the analysis functions, checked under Spec.            *)
(***************************************************************************)
\* find_clusters has returned.
FindClustersDone == pc = "idle" /\ op = "find_clusters" /\ result.status = "ok"

RECURSIVE Flatten(_)
Flatten(cs) == IF cs = <<>> THEN <<>> ELSE Head(cs) \o Flatten(Tail(cs))

Members(c) == {c[k] : k \in 1..Len(c)}

StrictlyIncreasing(c) == \A k \in 1..(Len(c) - 1) : c[k] < c[k + 1]

\* The distance of rows a and b of the dataset, or the exception in its
\* place.
Dist(a, b) == haversine_distance(Coord(data[a]), Coord(data[b]))

\* Rows a and b have a distance, and it is <= r (> r) kilometres.
Within(a, b, r) == Dist(a, b).status = "ok" /\ DLe(Dist(a, b).value, Km(r))

Beyond(a, b, r) == Dist(a, b).status = "ok" /\ DLt(Km(r), Dist(a, b).value)

\* C1: for every dataset and radius find_clusters returns a partition of
\* the dataset: the concatenation of the clusters returned holds every index
\* of the input exactly once.
C1_Partition ==
    (pc = "idle" /\ op = "find_clusters") =>
        /\ result.status = "ok"
        /\ LET all == Flatten(result.value)
           IN  /\ Len(all) = Len(data)
               /\ Members(all) = 1..Len(data)

\* The seeds among rows 1..n by the rule alone: a row is a seed exactly when
\* no earlier seed is within the radius of it.
RECURSIVE SeedsUpTo(_, _)
SeedsUpTo(n, r) ==
    IF n = 0 THEN {}
    ELSE LET before == SeedsUpTo(n - 1, r)
         IN  IF \E s \in before : Within(s, n, r)
             THEN before
             ELSE before \cup {n}

\* The first seed within the radius of row b.
SeedOf(b, r) ==
    LET near == {s \in SeedsUpTo(Len(data), r) : Within(s, b, r)}
    IN  CHOOSE s \in near : \A u \in near : s <= u

\* C2: membership is decided by the distance to the seed only: the clusters
\* are led by exactly the rows no earlier seed is within the radius of, and
\* every row is in the cluster of the first seed within the radius of it;
\* so rows 1, 2, 3 with row 2 within the radius of both others, and rows 1
\* and 3 farther apart than the radius, give [[1, 2], [3]].
C2_SeedOnly ==
    FindClustersDone =>
        /\ {c[1] : c \in Members(result.value)} = SeedsUpTo(Len(data), radius)
        /\ \A c \in Members(result.value) :
              \A b \in Members(c) : SeedOf(b, radius) = c[1]
        /\ ( /\ Len(data) = 3
             /\ Within(1, 2, radius)
             /\ Within(2, 3, radius)
             /\ Beyond(1, 3, radius) )
           => result.value = <<(<<1, 2>>), (<<3>>)>>

\* The chain: row 2 is within the radius of rows 1 and 3, which are not
\* within the radius of each other, and row 3 is left out of the cluster.
C2_Witness ==
    /\ FindClustersDone
    /\ Len(data) = 3
    /\ Beyond(1, 2, 0)
    /\ Within(1, 2, radius)
    /\ Within(2, 3, radius)
    /\ Beyond(1, 3, radius)
    /\ result.value = <<(<<1, 2>>), (<<3>>)>>

\* The place of the pair (a, b), a < b, among the pairs of 1..n in
\* lexicographic order.
PairPlace(a, b, n) == (a - 1) * n - (a * (a - 1)) \div 2 + (b - a)

\* C3: for every dataset of n rows calculate_distances returns n(n-1)/2
\* records, the record of the pair (a, b), a < b, at that pair's place in
\* lexicographic order, with point1 the coordinates of row a and point2
\* those of row b.
C3_Pairs ==
    op = "calculate_distances" =>
        /\ result.status = "ok"
        /\ LET n == Len(data)
           IN  /\ Len(result.value) = (n * (n - 1)) \div 2
               /\ \A a, b \in 1..n :
                     a < b =>
                        LET rec == result.value[PairPlace(a, b, n)]
                        IN  /\ rec.point1 = Coord(data[a])
                            /\ rec.point2 = Coord(data[b])

\* C4: summarize_data of an empty dataset fails with an empty-input error
\* raised by a guard, not with a numeric error such as a division by zero.
C4_EmptyDatasetError ==
    (op = "summarize_data" /\ data = <<>>) =>
        /\ result.status = "error"
        /\ result.err # "ZeroDivisionError"

CoreCalls == {"calculate_distances", "find_clusters", "summarize_data"}

\* C7: no step of calculate_distances, find_clusters or summarize_data
\* changes the caller's dataset: its length, its order and the x, y and
\* comment of every row stay as they were.
C7_InputUnchanged == [][op' \in CoreCalls => data' = data]_vars

\* A clustering of rows given as strings has returned, and the rows are
\* strings still.
C7_Witness ==
    /\ FindClustersDone
    /\ Len(result.value) >= 1
    /\ \E k \in 1..Len(data) : data[k].x.t = "str"

\* C8: haversine_distance is symmetric and 0 on equal coordinates: the
\* outcome for (a, b) is the outcome for (b, a), the same distance or the
\* same exception, and every distance calculate_distances returns is >= 0
\* and the same with the two points exchanged.
C8_Symmetric ==
    op = "calculate_distances" =>
        /\ \A a, b \in 1..Len(data) :
              /\ Dist(a, b) = Dist(b, a)
              /\ Dist(a, a) = Ok(Km(0))
        /\ result.status = "ok" =>
              \A k \in 1..Len(result.value) :
                 LET rec == result.value[k]
                 IN  /\ DLe(Km(0), rec.distance)
                     /\ Ok(rec.distance)
                           = haversine_distance(rec.point2, rec.point1)

\* A positive distance between rows at different latitudes and longitudes.
C8_Witness ==
    /\ op = "calculate_distances"
    /\ result.status = "ok"
    /\ \E k \in 1..Len(result.value) :
          /\ DLt(Km(0), result.value[k].distance)
          /\ result.value[k].point1[1] # result.value[k].point2[1]
          /\ result.value[k].point1[2] # result.value[k].point2[2]

\* A cluster led by its least index, in increasing order.
WellOrdered(c) == c # <<>> /\ StrictlyIncreasing(c)

\* C9: when row i becomes a seed every row before it is visited, the inner
\* loop only adds rows after i, and so every cluster is non-empty, starts
\* with its seed, lists its rows in strictly increasing order, and the
\* clusters come in strictly increasing order of their seeds.
C9_SeedOrder ==
    /\ pc = "inner" =>
          /\ 1..i \subseteq visited
          /\ StrictlyIncreasing(<<i>> \o cluster)
          /\ \A k \in 1..Len(clusters) :
                WellOrdered(clusters[k]) /\ clusters[k][1] < i
    /\ pc = "outer" =>
          /\ 1..(i - 1) \subseteq visited
          /\ \A k \in 1..Len(clusters) : WellOrdered(clusters[k])
    /\ FindClustersDone =>
          /\ \A k \in 1..Len(result.value) : WellOrdered(result.value[k])
          /\ StrictlyIncreasing([k \in 1..Len(result.value) |-> result.value[k][1]])

\* Two clusters, the first of them with a row collected after its seed.
C9_Witness ==
    /\ FindClustersDone
    /\ Len(result.value) = 2
    /\ Len(result.value[1]) >= 2
    /\ result.value[2][1] > result.value[1][2]

(***************************************************************************)
(* The claim about radius 0, checked under SpecNear.                       *)
(***************************************************************************)
\* Rows a and b are in the same cluster of the result.
SameCluster(a, b) ==
    \E c \in Members(result.value) : a \in Members(c) /\ b \in Members(c)

\* A row at a positive distance from every other row is a cluster of its own.
FarRowsAlone ==
    \A a \in 1..Len(data) :
        (\A b \in 1..Len(data) \ {a} : Beyond(a, b, 0))
           => \E k \in 1..Len(result.value) : result.value[k] = <<a>>

\* C6 as stated: with radius 0 two rows are in the same cluster exactly when
\* their coordinates are identical, and a row at a positive distance from
\* every other row is a cluster of its own.
C6_RadiusZero ==
    (FindClustersDone /\ radius = 0) =>
        /\ \A a, b \in 1..Len(data) :
              SameCluster(a, b) <=> Coord(data[a]) = Coord(data[b])
        /\ FarRowsAlone

\* C6: with radius 0 rows of identical coordinates are in the same cluster,
\* every row of a cluster is at the computed distance 0 from the cluster's
\* seed, whether or not its coordinates are the seed's, and a row at a
\* positive distance from every other row is a cluster of its own.
C6_RadiusZeroComputed ==
    (FindClustersDone /\ radius = 0) =>
        /\ \A a, b \in 1..Len(data) :
              Coord(data[a]) = Coord(data[b]) => SameCluster(a, b)
        /\ \A c \in Members(result.value) :
              \A b \in Members(c) : Dist(c[1], b) = Ok(Km(0))
        /\ FarRowsAlone

\* Radius 0: two rows of different coordinates and of the same radians share
\* a cluster, and the third row, at a positive distance from both, is a
\* cluster of its own.
C6_Witness ==
    /\ FindClustersDone
    /\ radius = 0
    /\ Len(data) = 3
    /\ Len(result.value) = 2
    /\ \E a, b \in 1..3 : /\ a # b
                          /\ Coord(data[a]) # Coord(data[b])
                          /\ SameCluster(a, b)
    /\ \E k \in 1..2 : /\ result.value[k] = <<3>>
                       /\ \A b \in 1..2 : Beyond(3, b, 0)

(***************************************************************************)
(* The claim about summarize_data, checked under SpecSummary.              *)
(***************************************************************************)
\* summarize_data of a non-empty dataset has returned.
Summarized == op = "summarize_data" /\ data # <<>> /\ result.status = "ok"

BoxOf(summary) ==
    <<summary.bounding_box.min_lat, summary.bounding_box.max_lat,
      summary.bounding_box.min_lon, summary.bounding_box.max_lon>>

\* lo and hi are the least and the greatest of xs.
LeastAndGreatest(xs, lo, hi) ==
    /\ \E k \in 1..Len(xs) : xs[k] = lo
    /\ \E k \in 1..Len(xs) : xs[k] = hi
    /\ \A k \in 1..Len(xs) : FLe(lo, xs[k]) /\ FLe(xs[k], hi)

\* The count, the bounding box and the points within it, as C5 has them.
CountAndBox ==
    LET summary == result.value
        xs == [k \in 1..Len(data) |-> Coord(data[k])[1]]
        ys == [k \in 1..Len(data) |-> Coord(data[k])[2]]
    IN  /\ summary.total_points = Len(data)
        /\ LeastAndGreatest(xs, summary.bounding_box.min_lat,
                                summary.bounding_box.max_lat)
        /\ LeastAndGreatest(ys, summary.bounding_box.min_lon,
                                summary.bounding_box.max_lon)
        /\ \A k \in 1..Len(data) :
              is_within_bounds(Coord(data[k]), BoxOf(summary))

RECURSIVE SumOffsets(_)
SumOffsets(xs) ==
    IF xs = <<>> THEN 0 ELSE xs[1].q + SumOffsets(Tail(xs))

\* avg, a double in [32, 64], is the mean of the n doubles xs of that range
\* up to the rounding of n - 1 additions and one division:
\* |n * avg - sum(xs)| <= (n(n+1)/2 - 1 + n/2) * 2^-47.
MeanUpToRounding(xs, avg) ==
    LET n == Len(xs)
    IN  /\ avg.t = "top"
        /\ avg.p = 1
        /\ 2 * Abs(n * avg.q - SumOffsets(xs)) <= n * n + 2 * n - 2

\* C5 as stated: for a non-empty dataset the count is the number of rows,
\* the box is the elementwise minimum and maximum, every row is within the
\* box, and the averages, being the arithmetic means, lie within the box:
\* min_lat <= average_latitude <= max_lat, min_lon <= average_longitude <=
\* max_lon.
C5_AveragesWithinBox ==
    Summarized =>
        /\ CountAndBox
        /\ is_within_bounds(<<result.value.average_latitude,
                              result.value.average_longitude>>,
                            BoxOf(result.value))

\* C5, amended: the count, the box and the rows within it are as stated;
\* the averages are the arithmetic means up to floating-point rounding, and
\* need not lie within the box.
C5_AveragesUpToRounding ==
    Summarized =>
        /\ CountAndBox
        /\ MeanUpToRounding([k \in 1..Len(data) |-> Coord(data[k])[1]],
                            result.value.average_latitude)
        /\ MeanUpToRounding([k \in 1..Len(data) |-> Coord(data[k])[2]],
                            result.value.average_longitude)

\* Three rows at the same latitude and an average latitude below it.
C5_Witness ==
    /\ Summarized
    /\ Len(data) = 3
    /\ result.value.total_points = 3
    /\ result.value.bounding_box.min_lat = result.value.bounding_box.max_lat
    /\ ~FLe(result.value.bounding_box.min_lat, result.value.average_latitude)

(***************************************************************************)
(* The claim about clean_data, checked under SpecClean.                    *)
(***************************************************************************)
\* Row k has numeric coordinates.
Numeric(row) == ToFloat(row.x).ok /\ ToFloat(row.y).ok

\* The rows C10 keeps: those with numeric coordinates that no earlier row
\* with numeric coordinates has.
KeptRows(d) ==
    {k \in 1..Len(d) :
        /\ Numeric(d[k])
        /\ \A m \in 1..(k - 1) : Numeric(d[m]) => Coord(d[m]) # Coord(d[k])}

\* cleaned holds, in the order of d, the kept rows with their coordinates
\* as floats and their comments.
IsCleaned(d, cleaned) ==
    /\ Len(cleaned) = Cardinality(KeptRows(d))
    /\ \A k \in KeptRows(d) :
          LET place == Cardinality({m \in KeptRows(d) : m <= k})
          IN  cleaned[place] = [x |-> Coord(d[k])[1], y |-> Coord(d[k])[2],
                                comment |-> d[k].comment]

\* C10: when every row has the keys x, y and comment, clean_data returns
\* the first row of each numeric coordinate pair, in input order, with no
\* coordinate pair twice, drops every row whose coordinates are not
\* numeric, and gives the same list when applied to its result; a row
\* without one of the keys makes it raise ValueError.
C10_CleanData ==
    op = "clean_data" =>
        IF \A k \in 1..Len(data) : RequiredKeys \subseteq DOMAIN data[k]
        THEN /\ result.status = "ok"
             /\ IsCleaned(data, result.value)
             /\ \A a, b \in 1..Len(result.value) :
                   a # b => Coord(result.value[a]) # Coord(result.value[b])
             /\ clean_data(result.value) = result
        ELSE result = Raise("ValueError")

====
